---- MODULE Spec2Model ----
(***************************************************************************)
(* Field generators of BOUT++ (src/src/field/fieldgenerators.hxx): the     *)
(* nodes of the expression tree that FieldFactory builds from a formula    *)
(* such as "gauss(x-0.5,0.2)*sin(y)".  Every node can clone itself from a  *)
(* list of child nodes, generate a value at a Context and print itself     *)
(* with str.                                                               *)
(*                                                                         *)
(* Nodes live in a heap (a sequence; a node's id is its index, and a       *)
(* child always has a smaller id than its parent, so trees are acyclic).   *)
(* BoutReal values are fixed-point numbers in tenths (One = 1.0), or the   *)
(* application of a native function (exp, pow, atan, atan2, cos), which is *)
(* kept as a term: the header fixes which function is applied to which     *)
(* arguments in which order, not the libm result.                          *)
(***************************************************************************)
EXTENDS Integers, Sequences, FiniteSets, TLC

VARIABLES
    heap,    \* the generator objects that exist, in order of construction
    cells,   \* the external BoutReal cells that a FieldValuePtr points to
    result,  \* what the last call on a generator did (returned / threw)
    snap     \* the cells as they were at the last generate call

vars == <<heap, cells, result, snap>>

-----------------------------------------------------------------------------
(* Bounds of the model *)

\* how many clones of a live binding are made
MaxNodes == 1
\* FieldMin / FieldMax scans: the longest input list
MaxLen == 3
\* FieldMin / FieldMax scans: the children take the values 1.0 .. MaxVal
MaxVal == 3
\* FieldRound: the input ranges over -MaxRound .. MaxRound tenths
MaxRound == 30
\* the longest argument list the parser hands to clone
MaxArgs == 3

-----------------------------------------------------------------------------
(* BoutReal *)

\* the literal 0.5 of FieldRound::generate, in tenths
Half == 5
One == 2 * Half

\* nullptr
NULL == 0

Num(n) == [fn |-> "num", n |-> n, args |-> <<>>]
App(f, as) == [fn |-> f, n |-> 0, args |-> as]

\* static_cast<int>(v): truncation toward zero, as a BoutReal again
StaticCastInt(v) == IF v >= 0 THEN (v \div One) * One ELSE -(((-v) \div One) * One)

\* the external cells and the x coordinate of a Context
Ptrs == {1, 2}
CellVals == {0, One}
Contexts == {[x |-> 0], [x |-> One + Half]}

-----------------------------------------------------------------------------
(* Constructors *)

Node(kind, Op, ptr, gen, A, B, input) ==
    [kind |-> kind, Op |-> Op, ptr |-> ptr, gen |-> gen, A |-> A, B |-> B,
     input |-> input]

FieldValuePtr(val) == Node("FieldValuePtr", "", val, NULL, NULL, NULL, <<>>)
FieldCos(g) == Node("FieldCos", "", NULL, g, NULL, NULL, <<>>)
FieldGenOneArg(Op, g) == Node("FieldGenOneArg", Op, NULL, g, NULL, NULL, <<>>)
FieldGenTwoArg(Op, a, b) == Node("FieldGenTwoArg", Op, NULL, NULL, a, b, <<>>)
FieldATan(a, b) == Node("FieldATan", "", NULL, NULL, a, b, <<>>)
FieldMin(args) == Node("FieldMin", "", NULL, NULL, NULL, NULL, args)
FieldMax(args) == Node("FieldMax", "", NULL, NULL, NULL, NULL, args)
FieldRound(g) == Node("FieldRound", "", NULL, g, NULL, NULL, <<>>)
\* the coordinate x of an expression such as gauss(x-0.5,0.2)
FieldX == Node("FieldX", "", NULL, NULL, NULL, NULL, <<>>)

-----------------------------------------------------------------------------
(* clone: what a call returns or throws *)

NoNode == Node("", "", NULL, NULL, NULL, NULL, <<>>)
Return(node) == [thrown |-> <<>>, node |-> node]
ParseException(msg) == [thrown |-> msg, node |-> NoNode]

\* "%lu" of an argument count
FormatLu(n) == ToString(n)

FieldValuePtr_clone(self, args) == Return(FieldValuePtr(self.ptr))

FieldGenOneArg_clone(self, args) ==
    IF Len(args) # 1
    THEN ParseException(<<"Incorrect", "number", "of", "arguments", "to",
                          "function", ".", "Expecting", "1", ",", "got",
                          FormatLu(Len(args))>>)
    ELSE Return(FieldGenOneArg(self.Op, Head(args)))

FieldGenTwoArg_clone(self, args) ==
    IF Len(args) # 2
    THEN ParseException(<<"Incorrect", "number", "of", "arguments", "to",
                          "function", ".", "Expecting", "2", ",", "got",
                          FormatLu(Len(args))>>)
    ELSE Return(FieldGenTwoArg(self.Op, Head(args), args[Len(args)]))

\* a slip: the two arguments change places
FieldATan_clone_swapped(self, args) ==
    IF Len(args) = 1
    THEN Return(FieldATan(Head(args), NULL))
    ELSE IF Len(args) = 2
    THEN Return(FieldATan(args[Len(args)], Head(args)))
    ELSE ParseException(<<"Incorrect", "number", "of", "arguments", "to",
                          "atan", "function", ".", "Expecting", "1", "or",
                          "2", ",", "got", FormatLu(Len(args))>>)

FieldATan_clone(self, args) ==
    IF Len(args) = 1
    THEN Return(FieldATan(Head(args), NULL))
    ELSE IF Len(args) = 2
    THEN Return(FieldATan(Head(args), args[Len(args)]))
    ELSE ParseException(<<"Incorrect", "number", "of", "arguments", "to",
                          "atan", "function", ".", "Expecting", "1", "or",
                          "2", ",", "got", FormatLu(Len(args))>>)

FieldMin_clone(self, args) ==
    IF Len(args) = 0
    THEN ParseException(<<"min", "function", "must", "have", "some", "inputs">>)
    ELSE Return(FieldMin(args))

FieldMax_clone(self, args) ==
    IF Len(args) = 0
    THEN ParseException(<<"max", "function", "must", "have", "some", "inputs">>)
    ELSE Return(FieldMax(args))

FieldRound_clone(self, args) ==
    IF Len(args) # 1
    THEN ParseException(<<"round", "function", "must", "have", "one", "input">>)
    ELSE Return(FieldRound(Head(args)))

\* declared in the header, defined in fieldgenerators.cxx: a unary function
FieldCos_clone(self, args) ==
    IF Len(args) # 1
    THEN ParseException(<<"Incorrect", "number", "of", "arguments", "to",
                          "cos", "function", ".", "Expecting", "1", ",",
                          "got", FormatLu(Len(args))>>)
    ELSE Return(FieldCos(Head(args)))

\* the virtual call
clone(self, args) ==
    CASE self.kind = "FieldValuePtr" -> FieldValuePtr_clone(self, args)
      [] self.kind = "FieldGenOneArg" -> FieldGenOneArg_clone(self, args)
      [] self.kind = "FieldGenTwoArg" -> FieldGenTwoArg_clone(self, args)
      [] self.kind = "FieldATan" -> FieldATan_clone(self, args)
      [] self.kind = "FieldMin" -> FieldMin_clone(self, args)
      [] self.kind = "FieldMax" -> FieldMax_clone(self, args)
      [] self.kind = "FieldRound" -> FieldRound_clone(self, args)
      [] self.kind = "FieldCos" -> FieldCos_clone(self, args)

-----------------------------------------------------------------------------
(* generate: the value of the generator with id n of heap h at Context pos, *)
(* with the external cells holding c                                        *)

RECURSIVE generate(_, _, _, _)

\* a slip: the cell after the bound one is read
FieldValuePtr_generate_next(h, c, self, pos) ==
    Num(c[IF self.ptr + 1 \in DOMAIN c THEN self.ptr + 1 ELSE 1])

FieldValuePtr_generate(h, c, self, pos) == Num(c[self.ptr])

FieldX_generate(h, c, self, pos) == Num(pos.x)

FieldGenOneArg_generate(h, c, self, pos) ==
    App(self.Op, <<generate(h, c, self.gen, pos)>>)

FieldGenTwoArg_generate(h, c, self, pos) ==
    App(self.Op, <<generate(h, c, self.A, pos), generate(h, c, self.B, pos)>>)

FieldATan_generate(h, c, self, pos) ==
    IF self.B = NULL
    THEN App("atan", <<generate(h, c, self.A, pos)>>)
    ELSE App("atan2", <<generate(h, c, self.A, pos), generate(h, c, self.B, pos)>>)

FieldCos_generate(h, c, self, pos) ==
    App("cos", <<generate(h, c, self.gen, pos)>>)

\* the scan of FieldMin::generate from iterator position it on; st is the
\* running result and the children whose generate has been called so far
RECURSIVE FieldMin_for(_, _, _, _, _, _)
FieldMin_for(h, c, self, pos, it, st) ==
    IF it > Len(self.input)
    THEN st
    ELSE LET val == generate(h, c, self.input[it], pos)
         IN FieldMin_for(h, c, self, pos, it + 1,
                [result |-> IF val.n < st.result.n THEN val ELSE st.result,
                 calls |-> Append(st.calls, self.input[it])])

FieldMin_scan(h, c, self, pos) ==
    FieldMin_for(h, c, self, pos, 1,
        [result |-> generate(h, c, self.input[1], pos),
         calls |-> <<self.input[1]>>])

\* a slip: the scan is left out and the first child's value returned
FieldMin_generate_unscanned(h, c, self, pos) == generate(h, c, self.input[1], pos)

FieldMin_generate(h, c, self, pos) == FieldMin_scan(h, c, self, pos).result

RECURSIVE FieldMax_for(_, _, _, _, _, _)
FieldMax_for(h, c, self, pos, it, st) ==
    IF it > Len(self.input)
    THEN st
    ELSE LET val == generate(h, c, self.input[it], pos)
         IN FieldMax_for(h, c, self, pos, it + 1,
                [result |-> IF val.n > st.result.n THEN val ELSE st.result,
                 calls |-> Append(st.calls, self.input[it])])

FieldMax_scan(h, c, self, pos) ==
    FieldMax_for(h, c, self, pos, 1,
        [result |-> generate(h, c, self.input[1], pos),
         calls |-> <<self.input[1]>>])

FieldMax_generate(h, c, self, pos) == FieldMax_scan(h, c, self, pos).result

\* a slip: 0.5 is added whatever the sign
FieldRound_generate_up(h, c, self, pos) ==
    Num(StaticCastInt(generate(h, c, self.gen, pos).n + Half))

FieldRound_generate(h, c, self, pos) ==
    LET val == generate(h, c, self.gen, pos)
    IN IF val.n > 0
       THEN Num(StaticCastInt(val.n + Half))
       ELSE Num(StaticCastInt(val.n - Half))

\* the virtual call
generate(h, c, n, pos) ==
    LET self == h[n]
    IN CASE self.kind = "FieldValuePtr" -> FieldValuePtr_generate(h, c, self, pos)
         [] self.kind = "FieldX" -> FieldX_generate(h, c, self, pos)
         [] self.kind = "FieldGenOneArg" -> FieldGenOneArg_generate(h, c, self, pos)
         [] self.kind = "FieldGenTwoArg" -> FieldGenTwoArg_generate(h, c, self, pos)
         [] self.kind = "FieldATan" -> FieldATan_generate(h, c, self, pos)
         [] self.kind = "FieldCos" -> FieldCos_generate(h, c, self, pos)
         [] self.kind = "FieldMin" -> FieldMin_generate(h, c, self, pos)
         [] self.kind = "FieldMax" -> FieldMax_generate(h, c, self, pos)
         [] self.kind = "FieldRound" -> FieldRound_generate(h, c, self, pos)

\* the children whose generate one generate call on n invokes, in order
Calls(h, c, n, pos) ==
    LET self == h[n]
    IN CASE self.kind = "FieldMin" -> FieldMin_scan(h, c, self, pos).calls
         [] self.kind = "FieldMax" -> FieldMax_scan(h, c, self, pos).calls
         [] self.kind \in {"FieldGenOneArg", "FieldCos", "FieldRound"} -> <<self.gen>>
         [] self.kind = "FieldGenTwoArg" -> <<self.A, self.B>>
         [] self.kind = "FieldATan" ->
                IF self.B = NULL THEN <<self.A>> ELSE <<self.A, self.B>>
         [] OTHER -> <<>>

\* the children a node holds
Children(self) ==
    CASE self.kind \in {"FieldGenOneArg", "FieldCos", "FieldRound"} -> <<self.gen>>
      [] self.kind = "FieldGenTwoArg" -> <<self.A, self.B>>
      [] self.kind = "FieldATan" ->
             IF self.B = NULL THEN <<self.A>> ELSE <<self.A, self.B>>
      [] self.kind \in {"FieldMin", "FieldMax"} -> self.input
      [] OTHER -> <<>>

\* generate on n dereferences a null child or the begin() of an empty list:
\* undefined behaviour
RECURSIVE Undefined(_, _)
Undefined(h, n) ==
    IF n = NULL
    THEN TRUE
    ELSE LET self == h[n]
         IN \/ self.kind \in {"FieldMin", "FieldMax"} /\ self.input = <<>>
            \/ \E i \in 1..Len(Children(self)) : Undefined(h, Children(self)[i])

\* the external cells that generate on n reads
RECURSIVE PtrsOf(_, _)
PtrsOf(h, n) ==
    IF n = NULL
    THEN {}
    ELSE LET self == h[n]
         IN (IF self.kind = "FieldValuePtr" THEN {self.ptr} ELSE {})
            \cup UNION {PtrsOf(h, Children(self)[i]) : i \in 1..Len(Children(self))}

\* generate on n compares numbers (the < and > of min, max and round need
\* numbers, not terms)
Numeric(h, n) ==
    h[n].kind \in {"FieldValuePtr", "FieldX", "FieldMin", "FieldMax", "FieldRound"}


-----------------------------------------------------------------------------
(* str, and the factory's way back from a text to a generator *)

RECURSIVE str(_, _)

FieldCos_str(h, self) == <<"cos", "(">> \o str(h, self.gen) \o <<")">>

FieldGenOneArg_str(h, self) == <<"func", "(">> \o str(h, self.gen) \o <<")">>

FieldGenTwoArg_str(h, self) ==
    <<"cos", "(">> \o str(h, self.A) \o <<",">> \o str(h, self.B) \o <<")">>

\* the coordinate prints as its name
FieldX_str(h, self) == <<"x">>

\* FieldGenerator::str of the base class, for the kinds that do not override it
FieldGenerator_str(h, self) == <<"?">>

str(h, n) ==
    LET self == h[n]
    IN CASE self.kind = "FieldCos" -> FieldCos_str(h, self)
         [] self.kind = "FieldGenOneArg" -> FieldGenOneArg_str(h, self)
         [] self.kind = "FieldGenTwoArg" -> FieldGenTwoArg_str(h, self)
         [] self.kind = "FieldX" -> FieldX_str(h, self)
         [] OTHER -> FieldGenerator_str(h, self)

\* the kinds of this header that override str
DefinesStr(self) == self.kind \in {"FieldCos", "FieldGenOneArg", "FieldGenTwoArg"}

\* n and everything below it prints itself, and nothing below it is bound to
\* an external cell
RECURSIVE Printable(_, _)
Printable(h, n) ==
    /\ n # NULL
    /\ \/ h[n].kind = "FieldX"
       \/ /\ DefinesStr(h[n])
          /\ \A i \in 1..Len(Children(h[n])) : Printable(h, Children(h[n])[i])

\* the generators the factory starts from: one instance of every kind, with
\* no children yet and registered under the name of its function
Templates ==
    <<FieldGenOneArg("exp", NULL), FieldGenTwoArg("pow", NULL, NULL),
      FieldATan(NULL, NULL), FieldMin(<<>>), FieldMax(<<>>), FieldRound(NULL),
      FieldCos(NULL)>>

\* the name a generator is registered under
NameOf(self) ==
    CASE self.kind \in {"FieldGenOneArg", "FieldGenTwoArg"} -> self.Op
      [] self.kind = "FieldATan" -> "atan"
      [] self.kind = "FieldMin" -> "min"
      [] self.kind = "FieldMax" -> "max"
      [] self.kind = "FieldRound" -> "round"
      [] self.kind = "FieldCos" -> "cos"
      [] OTHER -> ""

\* the factory's lookup of a function name: the registered instances
Lookup(name) == {i \in 1..Len(Templates) : NameOf(Templates[i]) = name}

\* the factory on the text of a call: the name before "(" is looked up and
\* the registered generator cloned with the parsed arguments
Parse(text, args) ==
    IF Lookup(text[1]) = {}
    THEN ParseException(<<"Couldn't", "find", "generator", text[1]>>)
    ELSE clone(Templates[CHOOSE i \in Lookup(text[1]) : TRUE], args)

-----------------------------------------------------------------------------
(* The state machine *)

\* the largest fixed argument count of a clone (FieldATan, FieldGenTwoArg)
MaxArity == 2

Ids == 1..Len(heap)
Evaluable == {n \in Ids : ~Undefined(heap, n)}

SeqsUpTo(S, k) == UNION {[1..m -> S] : m \in 0..k}

\* the argument lists the parser can hand to clone: generators that were
\* built from arguments themselves
ArgLists == SeqsUpTo(Evaluable, MaxArgs)

NoResult ==
    [op |-> "none", self |-> NULL, nargs |-> 0, args |-> <<>>, thrown |-> <<>>,
     ret |-> NULL, node |-> NoNode, pos |-> [x |-> 0], val |-> Num(0),
     calls |-> <<>>, ub |-> FALSE]

\* min, max and round compare numbers: their arguments are generators of
\* numbers
ArgsFor(self, args) ==
    self.kind \in {"FieldMin", "FieldMax", "FieldRound"}
        => \A i \in 1..Len(args) : Numeric(heap, args[i])

\* self->clone(args) throws
CloneThrows(self, args) ==
    /\ heap[self].kind # "FieldX"
    /\ ArgsFor(heap[self], args)
    /\ clone(heap[self], args).thrown # <<>>
    /\ result' = [NoResult EXCEPT !.op = "clone", !.self = self,
                     !.nargs = Len(args),
                     !.thrown = clone(heap[self], args).thrown]
    /\ UNCHANGED <<heap, cells, snap>>

\* self->clone(args) returns the new generator; cap is the room of the heap
CloneReturns(self, args, cap) ==
    /\ Len(heap) < cap
    /\ heap[self].kind # "FieldX"
    /\ ArgsFor(heap[self], args)
    /\ clone(heap[self], args).thrown = <<>>
    /\ heap' = Append(heap, clone(heap[self], args).node)
    /\ result' = [NoResult EXCEPT !.op = "clone", !.self = self,
                     !.nargs = Len(args), !.args = args,
                     !.ret = Len(heap) + 1,
                     !.node = clone(heap[self], args).node]
    /\ UNCHANGED <<cells, snap>>

\* n->generate(pos)
Generate(n, pos) ==
    /\ ~Undefined(heap, n)
    /\ result' = [NoResult EXCEPT !.op = "generate", !.self = n, !.pos = pos,
                     !.val = generate(heap, cells, n, pos),
                     !.calls = Calls(heap, cells, n, pos)]
    /\ snap' = cells
    /\ UNCHANGED <<heap, cells>>

\* what a generate call with undefined behaviour can come back with
UndefinedOutcomes == {Num(v) : v \in CellVals} \cup {App("crash", <<>>)}

\* n->generate(pos) on a generator that holds a null child or an empty
\* list: anything may come back
GenerateUndefined(n, pos, v) ==
    /\ Undefined(heap, n)
    /\ result' = [NoResult EXCEPT !.op = "generate", !.self = n, !.pos = pos,
                     !.val = v, !.ub = TRUE]
    /\ snap' = cells
    /\ UNCHANGED <<heap, cells>>

\* the owner of an external cell assigns to it
Write(p, v) ==
    /\ v # cells[p]
    /\ cells' = [cells EXCEPT ![p] = v]
    /\ UNCHANGED <<heap, result, snap>>

\* describe and re-parse: n->str() goes back through the factory with the
\* children of n as the parsed arguments
Reparse(n) ==
    /\ ~Undefined(heap, n)
    /\ DefinesStr(heap[n])
    /\ Printable(heap, n)
    /\ result' = [NoResult EXCEPT !.op = "reparse", !.self = n,
                     !.nargs = Len(Children(heap[n])),
                     !.args = Children(heap[n]),
                     !.thrown = Parse(str(heap, n), Children(heap[n])).thrown,
                     !.node = Parse(str(heap, n), Children(heap[n])).node]
    /\ UNCHANGED <<heap, cells, snap>>

-----------------------------------------------------------------------------
(* Spec: the factory at one call site.  It clones a registered generator   *)
(* with a list of arguments, hands the product to its caller, and may be   *)
(* asked to read the product's text back.                                  *)

InitHeap == <<FieldValuePtr(1), FieldX>> \o Templates

Init ==
    /\ heap = InitHeap
    /\ cells = [p \in Ptrs |-> 0]
    /\ result = NoResult
    /\ snap = cells

Next ==
    \/ \E self \in Ids, args \in ArgLists : CloneThrows(self, args)
    \/ \E self \in Ids, args \in ArgLists :
           CloneReturns(self, args, Len(InitHeap) + 1)
    \/ \E n \in Ids : Reparse(n)

Spec == Init /\ [][Next]_vars

-----------------------------------------------------------------------------
(* SpecLive: generators in use.  A forest the factory has built is         *)
(* evaluated at any Context while the owner of the external cells writes   *)
(* to them and the live bindings are cloned.                               *)

LiveLeaves == <<FieldValuePtr(1), FieldValuePtr(2), FieldX>>

\* exp(x), pow(*1, x), atan(*1, *2), atan(x), min(*1, *2, x), max(*2, x),
\* round(min(..)), cos(round(..)), exp(pow(..))
Forest ==
    <<clone(Templates[1], <<3>>).node,
      clone(Templates[2], <<1, 3>>).node,
      clone(Templates[3], <<1, 2>>).node,
      clone(Templates[3], <<3>>).node,
      clone(Templates[4], <<1, 2, 3>>).node,
      clone(Templates[5], <<2, 3>>).node,
      clone(Templates[6], <<15>>).node,
      clone(Templates[7], <<17>>).node,
      clone(Templates[1], <<12>>).node>>

LiveHeap == LiveLeaves \o Templates \o Forest

InitLive ==
    /\ heap = LiveHeap
    /\ cells \in [Ptrs -> CellVals]
    /\ result = NoResult
    /\ snap = cells

\* the argument lists a live binding is cloned with here: up to MaxArity of
\* the leaves
BindingArgs == SeqsUpTo(1..Len(LiveLeaves), MaxArity)

\* clone of a live binding
CloneBinding(self, args) ==
    /\ heap[self].kind = "FieldValuePtr"
    /\ CloneReturns(self, args, Len(LiveHeap) + MaxNodes)

NextLive ==
    \/ \E n \in Ids, pos \in Contexts : Generate(n, pos)
    \/ \E n \in Ids, pos \in Contexts, v \in UndefinedOutcomes :
           GenerateUndefined(n, pos, v)
    \/ \E p \in Ptrs, v \in CellVals : Write(p, v)
    \/ \E self \in Ids, args \in BindingArgs : CloneBinding(self, args)

SpecLive == InitLive /\ [][NextLive]_vars

-----------------------------------------------------------------------------
(* SpecMinMax: the scans of FieldMin and FieldMax over 1 .. MaxLen live    *)
(* bindings whose cells hold any of the values 1.0 .. MaxVal.              *)

ScanLeaves(k) == [i \in 1..k |-> FieldValuePtr(i)]
ScanInput(k) == [i \in 1..k |-> i]

InitMinMax ==
    \E k \in 1..MaxLen :
        /\ heap = ScanLeaves(k) \o <<FieldMin(ScanInput(k)), FieldMax(ScanInput(k))>>
        /\ cells \in [1..k -> {v * One : v \in 1..MaxVal}]
        /\ result = NoResult
        /\ snap = cells

NextMinMax == \E n \in Ids, pos \in Contexts : Generate(n, pos)

SpecMinMax == InitMinMax /\ [][NextMinMax]_vars

-----------------------------------------------------------------------------
(* SpecRound: FieldRound over a live binding whose cell takes every value  *)
(* from -MaxRound to MaxRound tenths.                                      *)

InitRound ==
    /\ heap = <<FieldValuePtr(1), FieldRound(1)>>
    /\ cells \in [{1} -> (-MaxRound)..MaxRound]
    /\ result = NoResult
    /\ snap = cells

NextRound ==
    \/ \E pos \in Contexts : Generate(2, pos)
    \/ \E v \in (-MaxRound)..MaxRound : Write(1, v)

SpecRound == InitRound /\ [][NextRound]_vars

-----------------------------------------------------------------------------
(* Properties *)

\* msg contains the word tok
Has(msg, tok) == \E i \in 1..Len(msg) : msg[i] = tok

\* how often x occurs in seq
Count(seq, x) == Cardinality({i \in 1..Len(seq) : seq[i] = x})

Abs(v) == IF v < 0 THEN -v ELSE v

\* the last call was self->clone(..) on a generator of one of these kinds
Cloned(kinds) == result.op = "clone" /\ heap[result.self].kind \in kinds

\* the last call was n->generate(..), with defined behaviour, on a generator
\* of one of these kinds
Generated(kinds) ==
    result.op = "generate" /\ ~result.ub /\ heap[result.self].kind \in kinds

\* C1: clone of a unary function generator (FieldGenOneArg, FieldRound) with
\* 0 or with 2 or more arguments throws a ParseException whose message names
\* "1" as the expected count; with exactly 1 argument it returns a new
\* generator of the same kind whose only child is that argument.
C1_UnaryClone ==
    Cloned({"FieldGenOneArg", "FieldRound"}) =>
        /\ result.nargs # 1 =>
               /\ result.thrown # <<>>
               /\ result.ret = NULL
               /\ Has(result.thrown, "1")
        /\ result.nargs = 1 =>
               /\ result.thrown = <<>>
               /\ heap[result.ret].kind = heap[result.self].kind
               /\ Children(heap[result.ret]) = result.args

\* C2: generate of a FieldMin over a non-empty list returns the smallest of
\* the children's values, and generate of a FieldMax the largest; over one
\* child both return that child's value.
ChildVals ==
    {generate(heap, cells, heap[result.self].input[i], result.pos) :
        i \in 1..Len(heap[result.self].input)}

C2_MinMax ==
    /\ Generated({"FieldMin"}) =>
           /\ result.val \in ChildVals
           /\ \A w \in ChildVals : result.val.n <= w.n
    /\ Generated({"FieldMax"}) =>
           /\ result.val \in ChildVals
           /\ \A w \in ChildVals : result.val.n >= w.n

\* children valued 3, 1, 2: the minimum 1 has come back
C2_Witness ==
    /\ Generated({"FieldMin"})
    /\ cells = <<3 * One, One, 2 * One>>
    /\ result.val = Num(One)

\* C3: one generate call on a FieldMin or FieldMax calls generate of every
\* child exactly once.
C3_EachChildOnce ==
    Generated({"FieldMin", "FieldMax"}) =>
        \A i \in 1..Len(heap[result.self].input) :
            Count(result.calls, heap[result.self].input[i]) = 1

\* C4: generate of a FieldRound returns the integer nearest to its child's
\* value, a half going away from zero: 2.4 -> 2, 2.5 -> 3, -2.5 -> -3,
\* -2.4 -> -2, 0 -> 0.
C4_RoundHalfAway ==
    (Generated({"FieldRound"}) /\ heap[heap[result.self].gen].kind = "FieldValuePtr") =>
        LET v == snap[heap[heap[result.self].gen].ptr]
            r == result.val.n
        IN /\ result.val = Num(r)
           /\ r % One = 0
           /\ Abs(r - v) <= Half
           /\ Abs(r - v) = Half => Abs(r) > Abs(v)
           /\ v = 2 * One + 4 => r = 2 * One
           /\ v = 2 * One + Half => r = 3 * One
           /\ v = -(2 * One + Half) => r = -(3 * One)
           /\ v = -(2 * One + 4) => r = -(2 * One)
           /\ v = 0 => r = 0

\* -2.5 has been rounded to -3
C4_Witness ==
    /\ Generated({"FieldRound"})
    /\ snap[1] = -(2 * One + Half)
    /\ result.val = Num(-(3 * One))

\* C5: clone of a FieldATan returns exactly when it is given 1 or 2 arguments
\* and throws for 0 and for 3 or more; the generator made from 1 argument
\* evaluates atan of that child, the one made from 2 arguments
\* atan2(first, second).
C5_ATanClone ==
    Cloned({"FieldATan"}) =>
        /\ (result.thrown = <<>>) <=> (result.nargs \in {1, 2})
        /\ result.thrown # <<>> => result.ret = NULL
        /\ result.thrown = <<>> =>
               /\ heap[result.ret].kind = "FieldATan"
               /\ Len(result.args) = result.nargs
               /\ \A c \in [Ptrs -> CellVals], pos \in Contexts :
                      generate(heap, c, result.ret, pos) =
                          IF result.nargs = 1
                          THEN App("atan", <<generate(heap, c, result.args[1], pos)>>)
                          ELSE App("atan2", <<generate(heap, c, result.args[1], pos),
                                              generate(heap, c, result.args[2], pos)>>)

\* an arctangent of two different arguments has been made
C5_Witness ==
    /\ Cloned({"FieldATan"})
    /\ result.thrown = <<>>
    /\ result.nargs = 2
    /\ result.args[1] # result.args[2]

\* C6: every ParseException that clone throws for a wrong argument count
\* carries the name of the function, the expected count and the count that
\* was given.
ExpectedCounts(self) ==
    CASE self.kind \in {"FieldGenOneArg", "FieldRound"} -> {"1"}
      [] self.kind = "FieldGenTwoArg" -> {"2"}
      [] self.kind = "FieldATan" -> {"1", "2"}
      [] OTHER -> {}

C6_ErrorCarries ==
    (/\ Cloned({"FieldGenOneArg", "FieldGenTwoArg", "FieldATan", "FieldRound",
                "FieldMin", "FieldMax"})
     /\ result.thrown # <<>>) =>
        /\ Has(result.thrown, NameOf(heap[result.self]))
        /\ \A e \in ExpectedCounts(heap[result.self]) : Has(result.thrown, e)
        /\ Has(result.thrown, FormatLu(result.nargs))

\* C7: generate of a live binding returns the value its cell holds at that
\* call, and clone, whatever the argument list, returns a new binding to the
\* same cell, so that the original and the clone evaluate to the same
\* current value whatever is written to the cell.
C7_LiveBinding ==
    /\ Generated({"FieldValuePtr"}) =>
           result.val = Num(snap[heap[result.self].ptr])
    /\ Cloned({"FieldValuePtr"}) =>
           /\ result.thrown = <<>>
           /\ result.ret \in Ids \ {result.self}
           /\ heap[result.ret].kind = "FieldValuePtr"
           /\ heap[result.ret].ptr = heap[result.self].ptr
           /\ \A pos \in Contexts :
                  /\ generate(heap, cells, result.ret, pos) =
                         Num(cells[heap[result.self].ptr])
                  /\ generate(heap, cells, result.self, pos) =
                         Num(cells[heap[result.self].ptr])

\* a binding whose cell has been written to was cloned with two arguments
C7_Witness ==
    /\ Cloned({"FieldValuePtr"})
    /\ result.nargs = 2
    /\ cells[heap[result.self].ptr] # snap[heap[result.self].ptr]

\* C8: generate is a function of the generator and the Context alone: a
\* later generate call on the same generator with the same Context returns
\* what the earlier one returned, whatever happened in between.
C8_PureOfNodeAndContext ==
    (result.op = "generate" /\ ~result.ub) =>
        generate(heap, cells, result.self, result.pos) = result.val

\* C8, amended: a later generate call on the same generator with the same
\* Context returns what the earlier one returned provided every external
\* cell that the tree is bound to holds the value it held at the earlier
\* call; a tree without live bindings always does.
C8_PureGivenCells ==
    (/\ result.op = "generate"
     /\ ~result.ub
     /\ \A p \in PtrsOf(heap, result.self) : cells[p] = snap[p]) =>
        generate(heap, cells, result.self, result.pos) = result.val

\* a tree bound to one cell was evaluated and the other cell written since
C8_Witness ==
    /\ result.op = "generate"
    /\ ~result.ub
    /\ heap[result.self].kind = "FieldGenTwoArg"
    /\ PtrsOf(heap, result.self) # {}
    /\ cells # snap
    /\ \A p \in PtrsOf(heap, result.self) : cells[p] = snap[p]

\* C9: str of a generator without live bindings names the generator's own
\* function, and the factory, given that text and the same children, returns
\* a generator of the same kind that evaluates as the original does.
C9_DescribeRoundTrip ==
    result.op = "reparse" =>
        /\ str(heap, result.self)[1] = NameOf(heap[result.self])
        /\ result.thrown = <<>>
        /\ result.node.kind = heap[result.self].kind
        /\ \A c \in [Ptrs -> CellVals], pos \in Contexts :
               generate(Append(heap, result.node), c, Len(heap) + 1, pos) =
                   generate(heap, c, result.self, pos)

\* C10: every FieldMin and FieldMax that exists holds a non-empty list of
\* children, so generate never reads the first element of an empty list, and
\* clone with an empty list throws and makes no generator.
C10_NonEmptyInput ==
    /\ \A n \in Ids :
           heap[n].kind \in {"FieldMin", "FieldMax"} => heap[n].input # <<>>
    /\ (result.op = "generate" /\ heap[result.self].kind \in {"FieldMin", "FieldMax"}) =>
           ~result.ub
    /\ (Cloned({"FieldMin", "FieldMax"}) /\ result.nargs = 0) =>
           result.thrown # <<>> /\ result.ret = NULL

====
